---- MODULE Spec2Model ----
(***************************************************************************)
(* OpsisStream: the exam platform's realtime connection registry           *)
(* (python_server/websocket_manager.py, main.py), its request handlers     *)
(* over the entity store (python_server/routes.py, database.py, auth.py)   *)
(* and the speech service's shared engine (server/speech_service.py).      *)
(*                                                                         *)
(* SpecRegistry explores the ConnectionManager with each method run to     *)
(* completion; SpecLoop, SpecClosing and SpecBroadcast explore the         *)
(* websocket endpoint's coroutines and broadcast() suspended at every      *)
(* await of a socket.  SpecStore explores the HTTP handlers, SpecAttempts  *)
(* the attempt handlers over existing exams, SpecFaults the audited        *)
(* handlers when audit writes can fail.  SpecSpeech explores the speech    *)
(* service's threads around tts_lock.                                      *)
(***************************************************************************)
EXTENDS Integers, Sequences, FiniteSets, Bags, TLC

\* ------------------------------------------------------------------ bounds
\* Number of websocket objects that can be alive at once.
MaxSockets == 2

\* Rows the store can hold, and requests that write an audit row.
MaxExams == 1
MaxQuestions == 1
MaxAttempts == 2
MaxAudit == 5
\* Audit writes that fail, and the audited requests explored where every
\* handler is enabled.
MaxAuditFailures == 1
MaxRequests == 3

\* Speech requests in flight at once.
MaxSpeechRequests == 2

\* ------------------------------------------------------------ value domains
None == "None"
\* A JSON value that is not hashable in Python (a list or a non-empty object).
Unhashable == "<unhashable>"

Students == {"stu1"}
Instructors == {"ins1", "ins2"}
Admins == {"adm1"}
Users == Students \cup Instructors \cup Admins

\* the users that open realtime connections
WsUsers == {"stu1", "ins1"}

Sockets == 1..MaxSockets
NoSocket == 0
Rooms == {"exam-1", "exam-2"}

VARIABLES
    \* ConnectionManager fields
    active_connections,   \* connection_id -> websocket
    user_connections,     \* user_id -> list of connection_id
    connection_users,     \* connection_id -> user_id
    exam_rooms,           \* exam_id -> list of connection_id
    \* websocket_endpoint coroutines that are between connect and disconnect
    endpoints             \* set of <<user_id, websocket>>

registryVars == <<active_connections, user_connections, connection_users,
                  exam_rooms, endpoints>>

VARIABLES
    \* the relational store (models.py tables)
    exams,                \* exam id -> row
    questions,            \* question id -> row
    attempts,             \* attempt id -> row
    attempt_heap,         \* attempt ids in the order an unordered scan yields them
    audit_log,            \* audit row -> number of such rows
    audit_failures        \* audit writes that have failed so far

storeVars == <<exams, questions, attempts, attempt_heap, audit_log, audit_failures>>

VARIABLES
    \* websocket_endpoint coroutines and a broadcast() call, step by step
    ep,                   \* websocket -> the coroutine serving it
    bc                    \* the broadcast() call in progress, if any

loopVars == <<ep, bc>>

VARIABLES
    \* server/speech_service.py module globals and its request threads
    tts_engine,           \* None or the pyttsx3 engine
    tts_lock,             \* threading.Lock: TRUE while locked
    speech                \* request -> where it is in its handler

speechVars == <<tts_engine, tts_lock, speech>>

vars == <<registryVars, storeVars, loopVars, speechVars>>

\* ------------------------------------------------------- Python containers
\* del d[k]
DictDel(d, k) == [x \in (DOMAIN d) \ {k} |-> d[x]]
\* d[k] = v
DictSet(d, k, v) == [x \in (DOMAIN d) \cup {k} |-> IF x = k THEN v ELSE d[x]]
\* x in list
InList(lst, x) == \E i \in 1..Len(lst) : lst[i] = x
\* index of the first occurrence of x in lst (x is in lst)
FirstIndex(lst, x) == CHOOSE i \in 1..Len(lst) :
                          lst[i] = x /\ \A j \in 1..(i - 1) : lst[j] # x
\* list.remove(x): drops the first occurrence only
ListRemove(lst, x) ==
    IF ~InList(lst, x) THEN lst
    ELSE LET k == FirstIndex(lst, x)
         IN  [i \in 1..(Len(lst) - 1) |-> IF i < k THEN lst[i] ELSE lst[i + 1]]
\* number of occurrences of x in lst
Count(lst, x) == Cardinality({i \in 1..Len(lst) : lst[i] = x})

\* connection_id = f"{user_id}_{id(websocket)}"
ConnectionId(user_id, websocket) == <<user_id, websocket>>

\* The four mappings of the manager as one value.
Registry == [active_connections |-> active_connections,
             user_connections   |-> user_connections,
             connection_users   |-> connection_users,
             exam_rooms         |-> exam_rooms]

EmptyRegistry == [active_connections |-> <<>>,
                  user_connections   |-> <<>>,
                  connection_users   |-> <<>>,
                  exam_rooms         |-> <<>>]

\* ------------------------------------------------ ConnectionManager methods
\* connect(websocket, user_id), after websocket.accept()
Connect(R, websocket, user_id) ==
    LET connection_id == ConnectionId(user_id, websocket)
        lst == IF user_id \in DOMAIN R.user_connections
               THEN R.user_connections[user_id] ELSE <<>>
    IN  [R EXCEPT
           !.active_connections = DictSet(@, connection_id, websocket),
           !.connection_users   = DictSet(@, connection_id, user_id),
           !.user_connections   = DictSet(@, user_id, Append(lst, connection_id))]

\* the room loop shared by disconnect and _remove_dead_connection:
\* connections.remove(connection_id) in every room that holds it
RemoveFromRooms(rooms, connection_id) ==
    [r \in DOMAIN rooms |-> ListRemove(rooms[r], connection_id)]

DropUserConnectionKeepsEmpty(uc, user_id, connection_id) ==
    IF user_id \notin DOMAIN uc THEN uc
    ELSE DictSet(uc, user_id, ListRemove(uc[user_id], connection_id))

\* user_connections after removing connection_id from user_id's list and
\* deleting the list when it became empty
DropUserConnection(uc, user_id, connection_id) ==
    IF user_id \notin DOMAIN uc THEN uc
    ELSE LET lst == ListRemove(uc[user_id], connection_id)
         IN  IF lst = <<>> THEN DictDel(uc, user_id)
             ELSE DictSet(uc, user_id, lst)

DisconnectKeepsRooms(R, websocket, user_id) ==
    LET connection_id == ConnectionId(user_id, websocket)
    IN  [R EXCEPT
           !.active_connections = DictDel(@, connection_id),
           !.user_connections   = DropUserConnection(@, user_id, connection_id),
           !.connection_users   = DictDel(@, connection_id)]

DisconnectKeepsSocket(R, websocket, user_id) ==
    LET connection_id == ConnectionId(user_id, websocket)
    IN  [R EXCEPT
           !.user_connections   = DropUserConnection(@, user_id, connection_id),
           !.connection_users   = DictDel(@, connection_id),
           !.exam_rooms         = RemoveFromRooms(@, connection_id)]

\* disconnect(websocket, user_id)
Disconnect(R, websocket, user_id) ==
    LET connection_id == ConnectionId(user_id, websocket)
    IN  [R EXCEPT
           !.active_connections = DictDel(@, connection_id),
           !.user_connections   = DropUserConnection(@, user_id, connection_id),
           !.connection_users   = DictDel(@, connection_id),
           !.exam_rooms         = RemoveFromRooms(@, connection_id)]

RemoveDeadKeepsRooms(R, connection_id) ==
    LET user_id == IF connection_id \in DOMAIN R.connection_users
                   THEN R.connection_users[connection_id] ELSE None
    IN  [R EXCEPT
           !.active_connections = DictDel(@, connection_id),
           !.user_connections   = IF user_id # None
                                  THEN DropUserConnection(@, user_id, connection_id)
                                  ELSE @,
           !.connection_users   = DictDel(@, connection_id)]

\* _remove_dead_connection(connection_id)
RemoveDeadConnection(R, connection_id) ==
    LET user_id == IF connection_id \in DOMAIN R.connection_users
                   THEN R.connection_users[connection_id] ELSE None
    IN  [R EXCEPT
           !.active_connections = DictDel(@, connection_id),
           !.user_connections   = IF user_id # None
                                  THEN DropUserConnection(@, user_id, connection_id)
                                  ELSE @,
           !.connection_users   = DictDel(@, connection_id),
           !.exam_rooms         = RemoveFromRooms(@, connection_id)]

JoinExamRoomAlwaysAppends(R, connection_id, exam_id) ==
    LET lst == IF exam_id \in DOMAIN R.exam_rooms THEN R.exam_rooms[exam_id] ELSE <<>>
    IN  [R EXCEPT !.exam_rooms = DictSet(@, exam_id, Append(lst, connection_id))]

\* join_exam_room(connection_id, exam_id), exam_id hashable
JoinExamRoom(R, connection_id, exam_id) ==
    LET lst == IF exam_id \in DOMAIN R.exam_rooms THEN R.exam_rooms[exam_id] ELSE <<>>
    IN  [R EXCEPT !.exam_rooms =
           DictSet(@, exam_id,
                   IF InList(lst, connection_id) THEN lst
                   ELSE Append(lst, connection_id))]

\* leave_exam_room(connection_id, exam_id), exam_id hashable
LeaveExamRoom(R, connection_id, exam_id) ==
    IF exam_id \in DOMAIN R.exam_rooms /\ InList(R.exam_rooms[exam_id], connection_id)
    THEN [R EXCEPT !.exam_rooms[exam_id] = ListRemove(@, connection_id)]
    ELSE R

\* The loop of send_personal_message.  It iterates the live list
\* self.user_connections[user_id]: position i is read from the list as it is
\* now, after the removals earlier iterations made.  F is the set of
\* websockets whose send_text raises during this call.
RECURSIVE PersonalLoop(_, _, _, _, _)
PersonalLoop(R, user_id, i, F, att) ==
    LET lst == IF user_id \in DOMAIN R.user_connections
               THEN R.user_connections[user_id] ELSE <<>>
    IN  IF i > Len(lst) THEN [reg |-> R, attempted |-> att]
        ELSE LET connection_id == lst[i]
             IN  IF connection_id \in DOMAIN R.active_connections
                 THEN PersonalLoop(
                        IF R.active_connections[connection_id] \in F
                        THEN RemoveDeadConnection(R, connection_id) ELSE R,
                        user_id, i + 1, F, Append(att, connection_id))
                 ELSE PersonalLoop(R, user_id, i + 1, F, att)

\* send_personal_message(message, user_id)
SendPersonalMessage(R, user_id, F) == PersonalLoop(R, user_id, 1, F, <<>>)

\* The loop of send_to_exam_room over self.exam_rooms[exam_id].copy().  Every
\* send is inside try/except Exception, so the loop ends with no exception
\* (exc = None) whatever F is.
RECURSIVE RoomLoop(_, _, _, _, _, _)
RoomLoop(R, snapshot, i, exclude_user, F, att) ==
    IF i > Len(snapshot) THEN [reg |-> R, attempted |-> att, exc |-> None]
    ELSE LET connection_id == snapshot[i]
             user_id == IF connection_id \in DOMAIN R.connection_users
                        THEN R.connection_users[connection_id] ELSE None
         IN  IF /\ user_id # None
                /\ user_id # exclude_user
                /\ connection_id \in DOMAIN R.active_connections
             THEN RoomLoop(
                    IF R.active_connections[connection_id] \in F
                    THEN RemoveDeadConnection(R, connection_id) ELSE R,
                    snapshot, i + 1, exclude_user, F, Append(att, connection_id))
             ELSE RoomLoop(R, snapshot, i + 1, exclude_user, F, att)

SendToExamRoomNoExclude(R, exam_id, exclude_user, F) ==
    IF exam_id \in DOMAIN R.exam_rooms
    THEN RoomLoop(R, R.exam_rooms[exam_id], 1, None, F, <<>>)
    ELSE [reg |-> R, attempted |-> <<>>, exc |-> None]

\* send_to_exam_room(message, exam_id, exclude_user), exam_id hashable
SendToExamRoom(R, exam_id, exclude_user, F) ==
    IF exam_id \in DOMAIN R.exam_rooms
    THEN RoomLoop(R, R.exam_rooms[exam_id], 1, exclude_user, F, <<>>)
    ELSE [reg |-> R, attempted |-> <<>>, exc |-> None]

\* ------------------------------------------------------------ handle_message
MessageTypes == {"join_exam", "leave_exam", "exam_update", "timer_sync", "ping"}
RoomMessageTypes == {"join_exam", "leave_exam", "exam_update", "timer_sync"}
RelayMessageTypes == {"exam_update", "timer_sync"}

\* What json.loads(data) yields: a decode error, a value that is not an
\* object, or an object of which only "type", "exam_id" and the relayed
\* field ("data" / "timer_data") are read.  None stands for an absent or
\* falsy field.
Payloads ==
    {[kind |-> k, type |-> None, exam_id |-> None, data |-> None] :
        k \in {"invalid_json", "non_object"}}
    \cup
    {p \in [kind : {"object"}, type : MessageTypes \cup {"unknown"},
            exam_id : Rooms \cup {None, Unhashable}, data : {None, "data"}] :
        /\ (p.type \notin RoomMessageTypes => p.exam_id = None)
        /\ (p.type \notin RelayMessageTypes => p.data = None)}

\* `exam_id in self.exam_rooms` raises TypeError for an unhashable key
Hashable(exam_id) == exam_id # Unhashable

CaughtOnlyJsonErrors(exc) == exc = "JSONDecodeError"

\* handle_message's handlers: except json.JSONDecodeError / except Exception
Caught(exc) == exc \in {"JSONDecodeError", "AttributeError", "TypeError", "SendError"}

\* The try-body of handle_message: the registry it leaves, the room members
\* it sent to, whether it sent a reply to the sender, and the exception that
\* ended it (None: it ran to its end).
HandleBody(R, websocket, p, F) ==
    LET same(exc) == [reg |-> R, attempted |-> <<>>, reply |-> FALSE, exc |-> exc]
        matches == {c \in DOMAIN R.active_connections :
                       R.active_connections[c] = websocket}
    IN  IF p.kind = "invalid_json" THEN same("JSONDecodeError")
        ELSE IF p.kind = "non_object" THEN same("AttributeError")
        ELSE IF matches = {} THEN same(None)
        ELSE
        LET connection_id == CHOOSE c \in matches : TRUE
            user_id == IF connection_id \in DOMAIN R.connection_users
                       THEN R.connection_users[connection_id] ELSE None
            replied(R2) == [reg |-> R2, attempted |-> <<>>, reply |-> TRUE,
                            exc |-> IF websocket \in F THEN "SendError" ELSE None]
        IN  CASE p.type = "join_exam" ->
                    IF p.exam_id = None THEN same(None)
                    ELSE IF ~Hashable(p.exam_id) THEN same("TypeError")
                    ELSE replied(JoinExamRoom(R, connection_id, p.exam_id))
              [] p.type = "leave_exam" ->
                    IF p.exam_id = None THEN same(None)
                    ELSE IF ~Hashable(p.exam_id) THEN same("TypeError")
                    ELSE replied(LeaveExamRoom(R, connection_id, p.exam_id))
              [] p.type \in RelayMessageTypes ->
                    IF p.exam_id = None \/ p.data = None THEN same(None)
                    ELSE IF ~Hashable(p.exam_id) THEN same("TypeError")
                    ELSE LET s == SendToExamRoom(R, p.exam_id, user_id, F)
                         IN  [reg |-> s.reg, attempted |-> s.attempted,
                              reply |-> FALSE, exc |-> None]
              [] p.type = "ping" -> replied(R)
              [] OTHER -> same(None)

\* handle_message(websocket, data)
HandleMessage(R, websocket, p, F) ==
    LET b == HandleBody(R, websocket, p, F)
    IN  [reg |-> b.reg, attempted |-> b.attempted, reply |-> b.reply,
         exc |-> b.exc, raised |-> (b.exc # None /\ ~Caught(b.exc))]

\* ------------------------------------------------- ConnectionManager actions
\* the connections among `attempted` whose send_text raised
Failed(attempted, F) ==
    {attempted[i] : i \in {j \in 1..Len(attempted) : attempted[j][2] \in F}}

SetRegistry(R) ==
    /\ active_connections' = R.active_connections
    /\ user_connections'   = R.user_connections
    /\ connection_users'   = R.connection_users
    /\ exam_rooms'         = R.exam_rooms

\* websocket_endpoint: a new socket is accepted and registered.  A websocket
\* object is registered once; its id() is free again only after its endpoint
\* coroutine has finished.
WsConnect(websocket, user_id) ==
    /\ \A e \in endpoints : e[2] # websocket
    /\ SetRegistry(Connect(Registry, websocket, user_id))
    /\ endpoints' = endpoints \cup {<<user_id, websocket>>}
    /\ UNCHANGED <<storeVars, loopVars, speechVars>>

\* websocket_endpoint: the receive loop ended, finally: disconnect
WsDisconnect(websocket, user_id) ==
    /\ <<user_id, websocket>> \in endpoints
    /\ SetRegistry(Disconnect(Registry, websocket, user_id))
    /\ endpoints' = endpoints \ {<<user_id, websocket>>}
    /\ UNCHANGED <<storeVars, loopVars, speechVars>>

\* websocket_endpoint: one received text is handled
WsHandleMessage(websocket, user_id, p, F) ==
    /\ <<user_id, websocket>> \in endpoints
    /\ SetRegistry(HandleMessage(Registry, websocket, p, F).reg)
    /\ UNCHANGED <<endpoints, storeVars, loopVars, speechVars>>

\* manager.send_personal_message(message, user_id)
WsSendPersonalMessage(user_id, F) ==
    /\ SetRegistry(SendPersonalMessage(Registry, user_id, F).reg)
    /\ UNCHANGED <<endpoints, storeVars, loopVars, speechVars>>

\* manager.send_to_exam_room(message, exam_id, exclude_user)
WsSendToExamRoom(exam_id, exclude_user, F) ==
    /\ SetRegistry(SendToExamRoom(Registry, exam_id, exclude_user, F).reg)
    /\ UNCHANGED <<endpoints, storeVars, loopVars, speechVars>>

\* The websockets a call sends to when no send fails.  A send failure only
\* removes connections, so a call with failures sends to no others: these are
\* the sockets whose failure the call can observe.
SocketsOf(attempted) == {attempted[i][2] : i \in 1..Len(attempted)}

TouchedByMessage(w, p) ==
    LET h == HandleMessage(Registry, w, p, {})
    IN  SocketsOf(h.attempted) \cup (IF h.reply THEN {w} ELSE {})

NextRegistry ==
    \/ \E w \in Sockets, u \in WsUsers : WsConnect(w, u)
    \/ \E w \in Sockets, u \in WsUsers : WsDisconnect(w, u)
    \/ \E e \in endpoints, p \in Payloads :
          \E F \in SUBSET TouchedByMessage(e[2], p) :
             WsHandleMessage(e[2], e[1], p, F)
    \/ \E u \in WsUsers :
          \E F \in SUBSET SocketsOf(SendPersonalMessage(Registry, u, {}).attempted) :
             WsSendPersonalMessage(u, F)
    \/ \E r \in Rooms, x \in WsUsers \cup {None} :
          \E F \in SUBSET SocketsOf(SendToExamRoom(Registry, r, x, {}).attempted) :
             WsSendToExamRoom(r, x, F)

InitRegistry ==
    /\ active_connections = <<>>
    /\ user_connections = <<>>
    /\ connection_users = <<>>
    /\ exam_rooms = <<>>
    /\ endpoints = {}

\* ------------------------------------------------- the handlers step by step
\* main.py websocket_endpoint and the manager's coroutines as the event loop
\* runs them: a coroutine is suspended only at an await of the socket
\* (receive_text, send_text) and runs alone between two such awaits.
\*   idle     no coroutine serves this websocket object
\*   receive  suspended at websocket.receive_text()
\*   reply    in handle_message, suspended at the send_text to the sender
\*   relay    in send_to_exam_room, suspended at the send_text to snapshot[i]
\*   closing  receive_text raised; the finally clause has not run yet
IdleEndpoint == [pc |-> "idle", user |-> None, handling |-> 0,
                 snapshot |-> <<>>, i |-> 0]

\* outcome is how the last broadcast() ended: None (none has ended),
\* "RuntimeError", "returned" (every connection registered at its start was
\* sent to) or "missed" (it returned without sending to one of them)
IdleBroadcast == [pc |-> "idle", n |-> 0, start |-> {}, visited |-> {},
                  cur |-> <<>>, dead |-> {}, outcome |-> None]

\* the rooms the explored messages name
LoopRooms == {"exam-1"}
\* the texts explored: one that is not JSON, and the well-formed messages
\* of every type that reaches a send or a room
LoopPayloads ==
    {p \in Payloads :
        \/ p.kind = "invalid_json"
        \/ /\ p.kind = "object"
           /\ p.type \in {"join_exam", "leave_exam", "exam_update", "ping"}
           /\ (p.type \in RoomMessageTypes => p.exam_id \in LoopRooms)
           /\ (p.type \in RelayMessageTypes => p.data # None)}

\* send_to_exam_room's loop from position i of its snapshot: the first
\* position whose connection still has a user other than exclude_user and a
\* socket, or Len(snapshot) + 1
RECURSIVE NextTarget(_, _, _, _)
NextTarget(R, snapshot, i, exclude_user) ==
    IF i > Len(snapshot) THEN i
    ELSE LET connection_id == snapshot[i]
         IN  IF /\ connection_id \in DOMAIN R.connection_users
                /\ R.connection_users[connection_id] # exclude_user
                /\ connection_id \in DOMAIN R.active_connections
             THEN i
             ELSE NextTarget(R, snapshot, i + 1, exclude_user)

\* handle_message(websocket, data) from its start to its first send_text:
\* the registry it leaves and where it is suspended ("receive": it returned)
HandleUntilSend(R, websocket, p) ==
    LET returned(R2) == [reg |-> R2, pc |-> "receive", snapshot |-> <<>>, i |-> 0]
        matches == {c \in DOMAIN R.active_connections :
                       R.active_connections[c] = websocket}
    IN  IF p.kind # "object" \/ matches = {} THEN returned(R)
        ELSE
        LET connection_id == CHOOSE c \in matches : TRUE
            user_id == IF connection_id \in DOMAIN R.connection_users
                       THEN R.connection_users[connection_id] ELSE None
            replying(R2) == [reg |-> R2, pc |-> "reply", snapshot |-> <<>>, i |-> 0]
        IN  CASE p.type \in {"join_exam", "leave_exam"} ->
                    IF p.exam_id = None \/ ~Hashable(p.exam_id) THEN returned(R)
                    ELSE IF p.type = "join_exam"
                         THEN replying(JoinExamRoom(R, connection_id, p.exam_id))
                         ELSE replying(LeaveExamRoom(R, connection_id, p.exam_id))
              [] p.type \in RelayMessageTypes ->
                    IF \/ p.exam_id = None \/ p.data = None \/ ~Hashable(p.exam_id)
                       \/ p.exam_id \notin DOMAIN R.exam_rooms
                    THEN returned(R)
                    ELSE LET snapshot == R.exam_rooms[p.exam_id]
                             i == NextTarget(R, snapshot, 1, user_id)
                         IN  IF i > Len(snapshot) THEN returned(R)
                             ELSE [reg |-> R, pc |-> "relay",
                                   snapshot |-> snapshot, i |-> i]
              [] p.type = "ping" -> replying(R)
              [] OTHER -> returned(R)

RelayAfterSendKeepsRooms(R, e, ok) ==
    LET R2 == IF ok THEN R ELSE RemoveDeadKeepsRooms(R, e.snapshot[e.i])
        j == NextTarget(R2, e.snapshot, e.i + 1, e.user)
    IN  IF j > Len(e.snapshot)
        THEN [reg |-> R2, pc |-> "receive", snapshot |-> <<>>, i |-> 0]
        ELSE [reg |-> R2, pc |-> "relay", snapshot |-> e.snapshot, i |-> j]

\* send_to_exam_room resumed after the send_text to snapshot[i]: a failed
\* send removes that connection, then the loop goes on
RelayAfterSend(R, e, ok) ==
    LET R2 == IF ok THEN R ELSE RemoveDeadConnection(R, e.snapshot[e.i])
        j == NextTarget(R2, e.snapshot, e.i + 1, e.user)
    IN  IF j > Len(e.snapshot)
        THEN [reg |-> R2, pc |-> "receive", snapshot |-> <<>>, i |-> 0]
        ELSE [reg |-> R2, pc |-> "relay", snapshot |-> e.snapshot, i |-> j]

\* broadcast's cleanup loop over dead_connections
RECURSIVE RemoveAllDead(_, _)
RemoveAllDead(R, dead) ==
    IF dead = {} THEN R
    ELSE LET c == CHOOSE x \in dead : TRUE
         IN  RemoveAllDead(RemoveDeadConnection(R, c), dead \ {c})

ReceivingWhileHandling(e) == e.pc \in {"receive", "reply", "relay"}

\* the endpoint coroutine is at `data = await websocket.receive_text()`
Receiving(e) == e.pc = "receive"

\* a suspended send_text holds a reference to websocket object w, so that
\* id(w) cannot be given to a new object
Referenced(w) ==
    \/ \E x \in Sockets : ep[x].pc = "relay" /\ ep[x].snapshot[ep[x].i][2] = w
    \/ bc.pc = "send" /\ bc.cur[2] = w

\* websocket_endpoint starts for a new socket: accept, then register
LoopConnect(w, user_id) ==
    /\ ep[w].pc = "idle"
    /\ ~Referenced(w)
    /\ SetRegistry(Connect(Registry, w, user_id))
    /\ endpoints' = endpoints \cup {<<user_id, w>>}
    /\ ep' = [ep EXCEPT ![w] = [IdleEndpoint EXCEPT !.pc = "receive", !.user = user_id]]
    /\ UNCHANGED <<bc, storeVars, speechVars>>

\* receive_text returns a text and handle_message runs to its first send
LoopReceive(w, p) ==
    /\ Receiving(ep[w])
    /\ LET h == HandleUntilSend(Registry, w, p)
       IN  /\ SetRegistry(h.reg)
           /\ ep' = [ep EXCEPT ![w].pc = h.pc,
                               ![w].snapshot = h.snapshot,
                               ![w].i = h.i,
                               ![w].handling = IF h.pc = "receive" THEN @ ELSE @ + 1]
    /\ UNCHANGED <<endpoints, bc, storeVars, speechVars>>

\* the reply to the sender was sent or failed; either way handle_message
\* returns and the loop awaits the next text
LoopReplied(w) ==
    /\ ep[w].pc = "reply"
    /\ ep' = [ep EXCEPT ![w].pc = "receive", ![w].handling = @ - 1]
    /\ UNCHANGED <<registryVars, bc, storeVars, speechVars>>

\* the send to a room member was made (ok) or raised
LoopRelayed(w, ok) ==
    /\ ep[w].pc = "relay"
    /\ LET h == RelayAfterSend(Registry, ep[w], ok)
       IN  /\ SetRegistry(h.reg)
           /\ ep' = [ep EXCEPT ![w].pc = h.pc,
                               ![w].snapshot = h.snapshot,
                               ![w].i = h.i,
                               ![w].handling = IF h.pc = "receive" THEN @ - 1 ELSE @]
    /\ UNCHANGED <<endpoints, bc, storeVars, speechVars>>

\* receive_text raises: the peer closed the socket or the receive failed
LoopClose(w) ==
    /\ ep[w].pc = "receive"
    /\ ep' = [ep EXCEPT ![w].pc = "closing"]
    /\ UNCHANGED <<registryVars, bc, storeVars, speechVars>>

\* finally: await manager.disconnect(websocket, current_user.id)
LoopFinally(w) ==
    /\ ep[w].pc = "closing"
    /\ SetRegistry(Disconnect(Registry, w, ep[w].user))
    /\ endpoints' = endpoints \ {<<ep[w].user, w>>}
    /\ ep' = [ep EXCEPT ![w] = IdleEndpoint]
    /\ UNCHANGED <<bc, storeVars, speechVars>>

\* broadcast(message) starts: the dict iterator is created and the first
\* send_text is awaited
BroadcastStart ==
    /\ bc.pc = "idle"
    /\ LET keys == DOMAIN active_connections
       IN  IF keys = {}
           THEN bc' = [IdleBroadcast EXCEPT !.outcome = "returned"]
           ELSE \E c \in keys :
                   bc' = [IdleBroadcast EXCEPT !.pc = "send",
                             !.n = Cardinality(keys), !.start = keys,
                             !.visited = {c}, !.cur = c]
    /\ UNCHANGED <<registryVars, ep, storeVars, speechVars>>

\* broadcast resumes after a send_text and asks the dict iterator for the
\* next item: the iterator raises RuntimeError when the dict's size is not
\* the size it had when the loop began
BroadcastResume(ok) ==
    /\ bc.pc = "send"
    /\ LET dead == IF ok THEN bc.dead ELSE bc.dead \cup {bc.cur}
           rest == (DOMAIN active_connections) \ bc.visited
       IN  IF Cardinality(DOMAIN active_connections) # bc.n
           THEN /\ bc' = [IdleBroadcast EXCEPT !.outcome = "RuntimeError"]
                /\ UNCHANGED registryVars
           ELSE IF rest = {}
           THEN /\ bc' = [IdleBroadcast EXCEPT !.outcome =
                             IF bc.start \subseteq bc.visited
                             THEN "returned" ELSE "missed"]
                /\ SetRegistry(RemoveAllDead(Registry, dead))
                /\ UNCHANGED endpoints
           ELSE /\ \E c \in rest :
                      bc' = [bc EXCEPT !.visited = @ \cup {c}, !.cur = c,
                                       !.dead = dead]
                /\ UNCHANGED registryVars
    /\ UNCHANGED <<ep, storeVars, speechVars>>

NextLoop ==
    \/ \E w \in Sockets, u \in WsUsers : LoopConnect(w, u)
    \/ \E w \in Sockets, p \in LoopPayloads : LoopReceive(w, p)
    \/ \E w \in Sockets : LoopReplied(w)
    \/ \E w \in Sockets, ok \in BOOLEAN : LoopRelayed(w, ok)
    \/ \E w \in Sockets : LoopClose(w)
    \/ \E w \in Sockets : LoopFinally(w)

\* sockets that open, join rooms and close
NextClosing ==
    \/ \E w \in Sockets, u \in WsUsers : LoopConnect(w, u)
    \/ \E w \in Sockets, p \in {q \in LoopPayloads : q.type = "join_exam"} :
          LoopReceive(w, p)
    \/ \E w \in Sockets : LoopReplied(w)
    \/ \E w \in Sockets : LoopClose(w)
    \/ \E w \in Sockets : LoopFinally(w)

\* broadcast() while sockets open and close
NextBroadcast ==
    \/ \E w \in Sockets, u \in WsUsers : LoopConnect(w, u)
    \/ \E w \in Sockets : LoopClose(w)
    \/ \E w \in Sockets : LoopFinally(w)
    \/ BroadcastStart
    \/ \E ok \in BOOLEAN : BroadcastResume(ok)

\* the finally clause follows the exception with no await in between
FairLoop == \A w \in Sockets : WF_vars(LoopFinally(w))

InitLoop ==
    /\ ep = [w \in Sockets |-> IdleEndpoint]
    /\ bc = IdleBroadcast

\* ------------------------------------------------------------ entity store
\* models.py UserRole, as stored in users.role
Role(user_id) ==
    IF user_id \in Students THEN "student"
    ELSE IF user_id \in Instructors THEN "instructor" ELSE "admin"

\* no row: what .first() returns when nothing matches, an error response's body
NoRow == 0

ExamIds == 1..MaxExams
QuestionIds == 1..MaxQuestions
AttemptIds == 1..MaxAttempts

\* The tables as one value.
\* audit_ok tells whether the audit write of the request being served
\* succeeds.
Store == [exams |-> exams, questions |-> questions, attempts |-> attempts,
          attempt_heap |-> attempt_heap, audit_log |-> audit_log,
          audit_ok |-> TRUE]

\* the same tables, serving a request whose audit write raises
AuditDown(S) == [S EXCEPT !.audit_ok = FALSE]

\* id = Column(..., default=uuid.uuid4): an identifier no row of the table has
NewId(table) == Cardinality(DOMAIN table) + 1

\* for key, value in updates.items(): if hasattr(row, key): setattr(row, key, value)
ApplyUpdates(row, updates) ==
    [f \in DOMAIN row |-> IF f \in DOMAIN updates THEN updates[f] ELSE row[f]]

\* model_dump(exclude_unset=True): the fields the request sets, out of `full`
Partial(full, D) == [f \in D |-> full[f]]

\* ExamCreate / ExamUpdate bodies (title, published)
ExamCreates == [title : {"t1"}, description : {"d1"}, time_limit : {60},
                published : BOOLEAN, settings : {"{}"}]
ExamUpdates ==
    {Partial(v, D) : v \in [title : {"t2"}, published : BOOLEAN],
                     D \in SUBSET {"title", "published"}}
\* QuestionUpdate bodies (points)
QuestionUpdates ==
    {Partial(v, D) : v \in [points : {2}], D \in SUBSET {"points"}}
\* AttemptUpdate bodies (answers, status, score)
AttemptStatuses == {"in_progress", "submitted", "graded"}
AttemptUpdates ==
    {Partial(v, D) : v \in [answers : {"answers"}, status : AttemptStatuses,
                            score : {"score"}],
                     D \in SUBSET {"answers", "status", "score"}}

CreateAuditEntryReplaces(S, user_id, action, entity_type, entity_id) ==
    [S EXCEPT !.audit_log = SetToBag({[user_id |-> user_id, action |-> action,
                                       entity_type |-> entity_type,
                                       entity_id |-> entity_id]})]

\* DatabaseStorage.create_audit_entry
CreateAuditEntry(S, user_id, action, entity_type, entity_id) ==
    [S EXCEPT !.audit_log = @ (+) SetToBag({[user_id |-> user_id, action |-> action,
                                             entity_type |-> entity_type,
                                             entity_id |-> entity_id]})]

\* an HTTP response: the store the request leaves, the status code, the body
Response(S, status, result) == [store |-> S, status |-> status, result |-> result]

AuditedSwallowsFailure(S, user_id, action, entity_type, entity_id) ==
    IF S.audit_ok
    THEN Response(CreateAuditEntry(S, user_id, action, entity_type, entity_id),
                  200, entity_id)
    ELSE Response(S, 200, entity_id)

\* the end of an audited handler: storage.create_audit_entry(...) and the
\* return; an exception of the audit write propagates (status 500) after
\* the entity write was committed
Audited(S, user_id, action, entity_type, entity_id) ==
    IF S.audit_ok
    THEN Response(CreateAuditEntry(S, user_id, action, entity_type, entity_id),
                  200, entity_id)
    ELSE Response(S, 500, NoRow)

\* Exam.updated_at: default=func.now() at the insert, onupdate=func.now()
\* at every UPDATE statement, which is emitted when a column changed
Restamp(old, new) ==
    IF new = old THEN old ELSE [new EXCEPT !.updated_at = "onupdate"]

\* DatabaseStorage.update_exam
DbUpdateExam(S, exam_id, updates) ==
    IF exam_id \notin DOMAIN S.exams THEN S
    ELSE [S EXCEPT !.exams[exam_id] = Restamp(@, ApplyUpdates(@, updates))]

\* DatabaseStorage.update_question
DbUpdateQuestion(S, question_id, updates) ==
    IF question_id \notin DOMAIN S.questions THEN S
    ELSE [S EXCEPT !.questions[question_id] = ApplyUpdates(@, updates)]

\* auth.require_instructor
IsInstructorOrAdmin(user_id) == Role(user_id) \in {"instructor", "admin"}

\* routes.get_exam
GetExam(S, user_id, exam_id) ==
    IF exam_id \notin DOMAIN S.exams THEN Response(S, 404, NoRow)
    ELSE LET exam == S.exams[exam_id]
         IN  IF /\ Role(user_id) # "instructor"
                /\ user_id # exam.instructor_id
                /\ ~exam.published
             THEN Response(S, 403, NoRow)
             ELSE Response(S, 200, exam_id)

\* DatabaseStorage.get_questions_by_exam
GetQuestionsByExam(S, exam_id) ==
    {q \in DOMAIN S.questions : S.questions[q].exam_id = exam_id}

\* routes.get_exam_questions
GetExamQuestions(S, user_id, exam_id) ==
    IF exam_id \notin DOMAIN S.exams THEN Response(S, 404, {})
    ELSE LET exam == S.exams[exam_id]
         IN  IF /\ Role(user_id) # "instructor"
                /\ user_id # exam.instructor_id
                /\ ~exam.published
             THEN Response(S, 403, {})
             ELSE Response(S, 200, GetQuestionsByExam(S, exam_id))

CreateExamUnpublished(S, user_id, exam_data) ==
    IF ~IsInstructorOrAdmin(user_id) THEN Response(S, 403, NoRow)
    ELSE LET id == NewId(S.exams)
             row == [instructor_id |-> user_id, title |-> exam_data.title,
                     description |-> exam_data.description,
                     time_limit |-> exam_data.time_limit,
                     published |-> FALSE,
                     settings |-> exam_data.settings,
                     updated_at |-> "default"]
             S1 == [S EXCEPT !.exams = DictSet(@, id, row)]
         IN  Audited(S1, user_id, "create_exam", "exam", id)

\* routes.create_exam
CreateExam(S, user_id, exam_data) ==
    IF ~IsInstructorOrAdmin(user_id) THEN Response(S, 403, NoRow)
    ELSE LET id == NewId(S.exams)
             row == [instructor_id |-> user_id, title |-> exam_data.title,
                     description |-> exam_data.description,
                     time_limit |-> exam_data.time_limit,
                     published |-> exam_data.published,
                     settings |-> exam_data.settings,
                     updated_at |-> "default"]
             S1 == [S EXCEPT !.exams = DictSet(@, id, row)]
         IN  Audited(S1, user_id, "create_exam", "exam", id)

\* routes.update_exam
UpdateExam(S, user_id, exam_id, updates) ==
    IF ~IsInstructorOrAdmin(user_id) THEN Response(S, 403, NoRow)
    ELSE IF exam_id \notin DOMAIN S.exams THEN Response(S, 404, NoRow)
    ELSE IF S.exams[exam_id].instructor_id # user_id THEN Response(S, 403, NoRow)
    ELSE Audited(DbUpdateExam(S, exam_id, updates), user_id, "update_exam", "exam",
                 exam_id)

\* routes.create_question
CreateQuestion(S, user_id, exam_id) ==
    IF ~IsInstructorOrAdmin(user_id) THEN Response(S, 403, NoRow)
    ELSE IF exam_id \notin DOMAIN S.exams \/ S.exams[exam_id].instructor_id # user_id
    THEN Response(S, 403, NoRow)
    ELSE LET id == NewId(S.questions)
             S1 == [S EXCEPT !.questions =
                       DictSet(@, id, [exam_id |-> exam_id, points |-> 1])]
         IN  Audited(S1, user_id, "create_question", "question", id)

\* routes.update_question: the row is updated and committed first, the
\* ownership check follows; no audit entry is written
UpdateQuestion(S, user_id, question_id, updates) ==
    IF ~IsInstructorOrAdmin(user_id) THEN Response(S, 403, NoRow)
    ELSE IF question_id \notin DOMAIN S.questions THEN Response(S, 404, NoRow)
    ELSE LET S1 == DbUpdateQuestion(S, question_id, updates)
             exam_id == S1.questions[question_id].exam_id
         IN  IF exam_id \notin DOMAIN S1.exams
                \/ S1.exams[exam_id].instructor_id # user_id
             THEN Response(S1, 403, NoRow)
             ELSE Response(S1, 200, question_id)

GetActiveAttemptNeverMatches(S, user_id, exam_id) == NoRow

\* DatabaseStorage.get_active_attempt: .first() of an unordered query, the
\* first matching row in the order the table is scanned; NoRow when none
GetActiveAttempt(S, user_id, exam_id) ==
    LET hits == {i \in 1..Len(S.attempt_heap) :
                    LET a == S.attempts[S.attempt_heap[i]]
                    IN  /\ a.user_id = user_id
                        /\ a.exam_id = exam_id
                        /\ a.status = "in_progress"}
    IN  IF hits = {} THEN NoRow
        ELSE S.attempt_heap[CHOOSE i \in hits : \A j \in hits : i <= j]

\* routes.start_exam_attempt
StartExamAttempt(S, user_id, exam_id) ==
    IF exam_id \notin DOMAIN S.exams THEN Response(S, 404, NoRow)
    ELSE IF ~S.exams[exam_id].published /\ Role(user_id) # "instructor"
    THEN Response(S, 403, NoRow)
    ELSE LET active_attempt == GetActiveAttempt(S, user_id, exam_id)
         IN  IF active_attempt # NoRow THEN Response(S, 200, active_attempt)
             ELSE LET id == NewId(S.attempts)
                      row == [exam_id |-> exam_id, user_id |-> user_id,
                              status |-> "in_progress", answers |-> "{}",
                              score |-> None, submitted_at |-> None,
                              analysis |-> None]
                      S1 == [S EXCEPT !.attempts = DictSet(@, id, row),
                                      !.attempt_heap = Append(@, id)]
                  IN  Audited(S1, user_id, "start_attempt", "attempt", id)

\* the scan order after an UPDATE of one row: the new row version either
\* keeps the row's place or is found after the other rows
HeapAfterUpdate(heap, id, moved) ==
    IF moved THEN Append(ListRemove(heap, id), id) ELSE heap

DbUpdateAttemptAllRows(S, attempt_id, updates, moved) ==
    IF attempt_id \notin DOMAIN S.attempts THEN S
    ELSE [S EXCEPT !.attempts = [a \in DOMAIN @ |-> ApplyUpdates(@[a], updates)],
                   !.attempt_heap = HeapAfterUpdate(@, attempt_id, moved)]

\* DatabaseStorage.update_attempt
DbUpdateAttempt(S, attempt_id, updates, moved) ==
    IF attempt_id \notin DOMAIN S.attempts THEN S
    ELSE [S EXCEPT !.attempts[attempt_id] = ApplyUpdates(@, updates),
                   !.attempt_heap = HeapAfterUpdate(@, attempt_id, moved)]

\* what update_attempt hands to the storage: the fields the request sets,
\* submitted_at when the request sets status to submitted, and the analysis
\* columns when that request also carries answers
\*   if updates.get("status") == SUBMITTED: updates["submitted_at"] = utcnow()
\*       if updates.get("answers"): updates.update(nlp_analysis)
SubmissionUpdates(attempt_updates) ==
    LET submitting == /\ "status" \in DOMAIN attempt_updates
                      /\ attempt_updates.status = "submitted"
        stamped == IF submitting
                   THEN attempt_updates @@ [submitted_at |-> "utcnow"]
                   ELSE attempt_updates
    IN  IF submitting /\ "answers" \in DOMAIN attempt_updates
        THEN stamped @@ [analysis |-> "analysed"]
        ELSE stamped

UpdateAttemptNoStamp(S, user_id, attempt_id, attempt_updates, moved) ==
    IF attempt_id \notin DOMAIN S.attempts THEN Response(S, 404, NoRow)
    ELSE IF S.attempts[attempt_id].user_id # user_id THEN Response(S, 403, NoRow)
    ELSE Audited(DbUpdateAttempt(S, attempt_id, attempt_updates, moved),
                 user_id, "update_attempt", "attempt", attempt_id)

\* routes.update_attempt
UpdateAttempt(S, user_id, attempt_id, attempt_updates, moved) ==
    IF attempt_id \notin DOMAIN S.attempts THEN Response(S, 404, NoRow)
    ELSE IF S.attempts[attempt_id].user_id # user_id THEN Response(S, 403, NoRow)
    ELSE Audited(DbUpdateAttempt(S, attempt_id, SubmissionUpdates(attempt_updates),
                                 moved),
                 user_id, "update_attempt", "attempt", attempt_id)

GetAttemptAnyone(S, user_id, attempt_id) ==
    IF attempt_id \notin DOMAIN S.attempts THEN Response(S, 404, NoRow)
    ELSE Response(S, 200, attempt_id)

\* routes.get_attempt
GetAttempt(S, user_id, attempt_id) ==
    IF attempt_id \notin DOMAIN S.attempts THEN Response(S, 404, NoRow)
    ELSE IF S.attempts[attempt_id].user_id # user_id /\ Role(user_id) # "instructor"
    THEN Response(S, 403, NoRow)
    ELSE Response(S, 200, attempt_id)

\* ------------------------------------------------------------ credentials
\* Bearer tokens by what the two verifiers make of them: a token issued by
\* create_access_token and not yet expired, such a token after its exp, a
\* well-formed JWT that SECRET_KEY did not sign, and a string that is no JWT.
TokenKinds == {"local", "expired", "foreign", "malformed"}
\* the "sub" of the payload: a stored user, a user that is not stored, none
Subjects == Users \cup {"ghost", None}
Tokens == [kind : TokenKinds, sub : Subjects]

\* auth.verify_token: jwt.decode with SECRET_KEY; ok = FALSE stands for
\* AuthenticationError
VerifyToken(token) ==
    IF token.kind = "local" THEN [ok |-> TRUE, sub |-> token.sub]
    ELSE [ok |-> FALSE, sub |-> None]

\* auth.verify_replit_token: jwt.decode with verify_signature False
VerifyReplitToken(token) ==
    IF token.kind = "malformed" THEN [ok |-> FALSE, sub |-> None]
    ELSE [ok |-> TRUE, sub |-> token.sub]

\* DatabaseStorage.get_user over the users table
GetUser(user_id) == IF user_id \in Users THEN user_id ELSE None

GetCurrentUserSkipsLookup(S, token) ==
    LET first == VerifyToken(token)
        payload == IF first.ok THEN first ELSE VerifyReplitToken(token)
    IN  IF ~payload.ok \/ payload.sub = None THEN Response(S, 401, None)
        ELSE Response(S, 200, payload.sub)

\* auth.get_current_user
GetCurrentUser(S, token) ==
    LET first == VerifyToken(token)
        payload == IF first.ok THEN first ELSE VerifyReplitToken(token)
    IN  IF ~payload.ok THEN Response(S, 401, None)
        ELSE IF payload.sub = None THEN Response(S, 401, None)
        ELSE IF GetUser(payload.sub) = None THEN Response(S, 401, None)
        ELSE Response(S, 200, payload.sub)

\* ------------------------------------------------------------- HTTP requests
SetStore(S) ==
    /\ exams' = S.exams
    /\ questions' = S.questions
    /\ attempts' = S.attempts
    /\ attempt_heap' = S.attempt_heap
    /\ audit_log' = S.audit_log

\* the tables after a request, and one more failed audit write when the
\* request ended in the audit write's exception
Commit(r) ==
    /\ SetStore(r.store)
    /\ audit_failures' = IF r.status = 500 THEN audit_failures + 1 ELSE audit_failures

\* the store as the request being served finds it
Serving(audit_ok) == IF audit_ok THEN Store ELSE AuditDown(Store)

\* a request that may write an audit row is explored while the log has room
AuditRoom == BagCardinality(audit_log) + audit_failures < MaxAudit
\* an audit write fails only while fewer than MaxAuditFailures have failed
FailureRoom(audit_ok) == audit_ok \/ audit_failures < MaxAuditFailures
\* the budget of audited requests where every handler is enabled
RequestRoom == BagCardinality(audit_log) + audit_failures < MaxRequests

HttpGetCurrentUserInfo(token) ==
    /\ Commit(GetCurrentUser(Store, token))
    /\ UNCHANGED <<registryVars, loopVars, speechVars>>

HttpGetExam(user_id, exam_id) ==
    /\ Commit(GetExam(Store, user_id, exam_id))
    /\ UNCHANGED <<registryVars, loopVars, speechVars>>

HttpGetExamQuestions(user_id, exam_id) ==
    /\ Commit(GetExamQuestions(Store, user_id, exam_id))
    /\ UNCHANGED <<registryVars, loopVars, speechVars>>

HttpCreateExam(user_id, exam_data, audit_ok) ==
    /\ AuditRoom /\ FailureRoom(audit_ok)
    /\ Cardinality(DOMAIN exams) < MaxExams
    /\ Commit(CreateExam(Serving(audit_ok), user_id, exam_data))
    /\ UNCHANGED <<registryVars, loopVars, speechVars>>

HttpUpdateExam(user_id, exam_id, updates, audit_ok) ==
    /\ AuditRoom /\ FailureRoom(audit_ok)
    /\ Commit(UpdateExam(Serving(audit_ok), user_id, exam_id, updates))
    /\ UNCHANGED <<registryVars, loopVars, speechVars>>

HttpCreateQuestion(user_id, exam_id, audit_ok) ==
    /\ AuditRoom /\ FailureRoom(audit_ok)
    /\ Cardinality(DOMAIN questions) < MaxQuestions
    /\ Commit(CreateQuestion(Serving(audit_ok), user_id, exam_id))
    /\ UNCHANGED <<registryVars, loopVars, speechVars>>

HttpUpdateQuestion(user_id, question_id, updates) ==
    /\ Commit(UpdateQuestion(Store, user_id, question_id, updates))
    /\ UNCHANGED <<registryVars, loopVars, speechVars>>

HttpStartExamAttempt(user_id, exam_id, audit_ok) ==
    /\ AuditRoom /\ FailureRoom(audit_ok)
    /\ Cardinality(DOMAIN attempts) < MaxAttempts
    /\ Commit(StartExamAttempt(Serving(audit_ok), user_id, exam_id))
    /\ UNCHANGED <<registryVars, loopVars, speechVars>>

HttpGetAttempt(user_id, attempt_id) ==
    /\ Commit(GetAttempt(Store, user_id, attempt_id))
    /\ UNCHANGED <<registryVars, loopVars, speechVars>>

HttpUpdateAttempt(user_id, attempt_id, updates, moved, audit_ok) ==
    /\ AuditRoom /\ FailureRoom(audit_ok)
    /\ Commit(UpdateAttempt(Serving(audit_ok), user_id, attempt_id, updates, moved))
    /\ UNCHANGED <<registryVars, loopVars, speechVars>>

\* where the updated row can be found by the next scan: in its place, or
\* after the other rows when it is not the last one already
Moves(attempt_id) ==
    IF attempt_heap[Len(attempt_heap)] = attempt_id THEN {FALSE} ELSE BOOLEAN

\* every handler, served while audit writes succeed; the audited ones
\* within the request budget
NextStore ==
    \/ \E t \in Tokens : HttpGetCurrentUserInfo(t)
    \/ \E u \in Users, e \in ExamIds : HttpGetExam(u, e)
    \/ \E u \in Users, e \in ExamIds : HttpGetExamQuestions(u, e)
    \/ \E u \in Users, d \in ExamCreates : RequestRoom /\ HttpCreateExam(u, d, TRUE)
    \/ \E u \in Users, e \in ExamIds, d \in ExamUpdates :
          RequestRoom /\ HttpUpdateExam(u, e, d, TRUE)
    \/ \E u \in Users, e \in ExamIds : RequestRoom /\ HttpCreateQuestion(u, e, TRUE)
    \/ \E u \in Users, q \in QuestionIds, d \in QuestionUpdates :
          HttpUpdateQuestion(u, q, d)
    \/ \E u \in Users, e \in ExamIds : RequestRoom /\ HttpStartExamAttempt(u, e, TRUE)
    \/ \E u \in Users, a \in AttemptIds : HttpGetAttempt(u, a)
    \/ \E u \in Users, a \in DOMAIN attempts :
          \E d \in AttemptUpdates, m \in Moves(a) :
              RequestRoom /\ HttpUpdateAttempt(u, a, d, m, TRUE)

\* the audited handlers, each with an audit write that succeeds or raises
NextFaults ==
    \/ \E u \in Users, d \in ExamCreates, ok \in BOOLEAN :
          RequestRoom /\ HttpCreateExam(u, d, ok)
    \/ \E u \in Users, e \in ExamIds, d \in ExamUpdates, ok \in BOOLEAN :
          RequestRoom /\ HttpUpdateExam(u, e, d, ok)
    \/ \E u \in Users, e \in ExamIds, ok \in BOOLEAN :
          RequestRoom /\ HttpCreateQuestion(u, e, ok)
    \/ \E u \in Users, e \in ExamIds, ok \in BOOLEAN :
          RequestRoom /\ HttpStartExamAttempt(u, e, ok)
    \/ \E u \in Users, a \in DOMAIN attempts :
          \E d \in AttemptUpdates, m \in Moves(a), ok \in BOOLEAN :
              RequestRoom /\ HttpUpdateAttempt(u, a, d, m, ok)

\* the attempt requests, served while audit writes succeed
NextAttempts ==
    \/ \E u \in Users, e \in ExamIds : HttpStartExamAttempt(u, e, TRUE)
    \/ \E u \in Users, a \in AttemptIds : HttpGetAttempt(u, a)
    \/ \E u \in Users, a \in DOMAIN attempts :
          \E d \in AttemptUpdates, m \in Moves(a) :
              HttpUpdateAttempt(u, a, d, m, TRUE)

InitStore ==
    /\ exams = <<>>
    /\ questions = <<>>
    /\ attempts = <<>>
    /\ attempt_heap = <<>>
    /\ audit_log = EmptyBag
    /\ audit_failures = 0

\* A store in which instructor ins1 has created MaxExams exams, each
\* published or not, and nothing else has happened.
ExamsCreatedBy(user_id, flags) ==
    [exams |-> [e \in ExamIds |-> [instructor_id |-> user_id, title |-> "t1",
                                   description |-> "d1", time_limit |-> 60,
                                   published |-> flags[e], settings |-> "{}",
                                   updated_at |-> "default"]],
     audit_log |-> SetToBag({[user_id |-> user_id, action |-> "create_exam",
                              entity_type |-> "exam", entity_id |-> e] :
                                 e \in ExamIds})]

InitExams ==
    \E flags \in [ExamIds -> BOOLEAN] :
        /\ exams = ExamsCreatedBy("ins1", flags).exams
        /\ audit_log = ExamsCreatedBy("ins1", flags).audit_log
        /\ questions = <<>>
        /\ attempts = <<>>
        /\ attempt_heap = <<>>
        /\ audit_failures = 0

\* ------------------------------------------------------------ speech service
\* server/speech_service.py.  Thread Main imports the module, which calls
\* init_tts_engine() once; the other threads serve one request each at a
\* time.  The handlers are explored under every interleaving of their lock
\* operations, which includes the schedules of a single event loop.
Main == 0
SpeechRequests == 1..MaxSpeechRequests
SpeechThreads == {Main} \cup SpeechRequests

\* the fields of a request the handlers read
NoRequest == [op |-> None, engine |-> None, text |-> None]
SpeechInputs ==
    {[op |-> "synthesize", engine |-> e, text |-> t] :
        e \in {"pyttsx3", "gtts"}, t \in {"", "text"}}
    \cup {[op |-> "voices", engine |-> None, text |-> None]}

SpeechGlobals == [tts_engine |-> tts_engine, tts_lock |-> tts_lock, speech |-> speech]

CanAcquireAlways(lock) == TRUE

\* threading.Lock.acquire() returns only while the lock is unlocked; the
\* lock has no owner and no count
CanAcquire(lock) == ~lock

\* t is at a `with tts_lock:` whose lock is taken
Waiting(G, t) == G.speech[t].pc \in {"outer", "inner"} /\ ~CanAcquire(G.tts_lock)

\* the positions at which a thread reads or configures tts_engine
EnginePcs == {"init", "use"}

\* One step of thread t, up to its next lock operation or response.
\*   entry  the handler reads the request
\*   gtts   the gTTS branch of synthesize_speech
\*   outer  at the handler's `with tts_lock:`
\*   inner  in init_tts_engine() at its `with tts_lock:`
\*   init   inside init_tts_engine's with-block
\*   use    back in the handler, using tts_engine, then leaving its with-block
\* ok tells whether the library call of the step succeeds.
ThreadStep(G, t, ok) ==
    LET me == G.speech[t]
        at(pc) == [G EXCEPT !.speech[t].pc = pc]
        respond(G2, status) ==
            [G2 EXCEPT !.speech[t] = [pc |-> "idle", req |-> NoRequest,
                                      response |-> status]]
    IN  CASE me.pc = "entry" ->
                 IF me.req.op = "voices" THEN at("outer")
                 ELSE IF me.req.text = "" THEN respond(G, 500)
                 ELSE IF me.req.engine = "gtts" THEN at("gtts")
                 ELSE at("outer")
          [] me.pc = "gtts" -> respond(G, IF ok THEN 200 ELSE 500)
          [] me.pc = "outer" -> [at("inner") EXCEPT !.tts_lock = TRUE]
          [] me.pc = "inner" -> [at("init") EXCEPT !.tts_lock = TRUE]
          [] me.pc = "init" ->
                 [at(IF t = Main THEN "serving" ELSE "use") EXCEPT
                     !.tts_engine = IF @ = None /\ ok THEN "engine" ELSE @,
                     !.tts_lock = FALSE]
          [] me.pc = "use" ->
                 LET released == [G EXCEPT !.tts_lock = FALSE]
                     \* leaving the with-block of an unlocked lock raises
                     unlocked == ~G.tts_lock
                 IN  IF me.req.op = "voices" THEN respond(released, 200)
                     ELSE respond(released,
                                  IF G.tts_engine = None \/ unlocked \/ ~ok
                                  THEN 500 ELSE 200)
          [] OTHER -> G

SetSpeech(G) ==
    /\ tts_engine' = G.tts_engine
    /\ tts_lock' = G.tts_lock
    /\ speech' = G.speech

\* a request arrives at an idle worker of the running server
SpeechBegin(t, req) ==
    /\ speech[Main].pc = "serving"
    /\ speech[t].pc = "idle"
    /\ speech' = [speech EXCEPT ![t] = [pc |-> "entry", req |-> req, response |-> 0]]
    /\ UNCHANGED <<tts_engine, tts_lock, registryVars, storeVars, loopVars>>

\* thread t runs to its next lock operation or response
SpeechRun(t, ok) ==
    /\ speech[t].pc \notin {"idle", "serving"}
    /\ ~Waiting(SpeechGlobals, t)
    /\ SetSpeech(ThreadStep(SpeechGlobals, t, ok))
    /\ UNCHANGED <<registryVars, storeVars, loopVars>>

NextSpeech ==
    \/ \E t \in SpeechRequests, req \in SpeechInputs : SpeechBegin(t, req)
    \/ \E t \in SpeechThreads, ok \in BOOLEAN : SpeechRun(t, ok)

\* a thread that can take a step eventually takes one
FairSpeech == \A t \in SpeechThreads : WF_vars(\E ok \in BOOLEAN : SpeechRun(t, ok))

\* the module is being imported: Main is about to call init_tts_engine()
InitSpeech ==
    /\ tts_engine = None
    /\ tts_lock = FALSE
    /\ speech = [t \in SpeechThreads |->
                    [pc |-> IF t = Main THEN "inner" ELSE "idle",
                     req |-> NoRequest, response |-> 0]]

Init == InitRegistry /\ InitStore /\ InitLoop /\ InitSpeech

InitAttempts == InitRegistry /\ InitExams /\ InitLoop /\ InitSpeech

SpecRegistry == Init /\ [][NextRegistry]_vars

SpecStore == Init /\ [][NextStore]_vars

\* the audited requests when audit writes can fail
SpecFaults == Init /\ [][NextFaults]_vars

\* start_exam_attempt, get_attempt and update_attempt requests over
\* existing exams
SpecAttempts == InitAttempts /\ [][NextAttempts]_vars

\* the websocket endpoint's coroutines and broadcast(), await by await
SpecLoop == Init /\ [][NextLoop]_vars

\* sockets opening, joining rooms and closing, where a coroutine whose
\* receive loop has ended goes on to its finally clause
SpecClosing == Init /\ [][NextClosing]_vars /\ FairLoop

\* broadcast() interleaved with sockets opening and closing
SpecBroadcast == Init /\ [][NextBroadcast]_vars

\* the speech service's request threads
SpecSpeech == Init /\ [][NextSpeech]_vars /\ FairSpeech

\* ================================================= properties of the registry
\* connection_id appears in none of the four mappings of R
Absent(R, connection_id) ==
    /\ connection_id \notin DOMAIN R.active_connections
    /\ connection_id \notin DOMAIN R.connection_users
    /\ \A u \in DOMAIN R.user_connections : ~InList(R.user_connections[u], connection_id)
    /\ \A r \in DOMAIN R.exam_rooms : ~InList(R.exam_rooms[r], connection_id)

HeldBy(R, user_id) ==
    IF user_id \in DOMAIN R.user_connections THEN R.user_connections[user_id] ELSE <<>>

Members(R, exam_id) ==
    IF exam_id \in DOMAIN R.exam_rooms THEN R.exam_rooms[exam_id] ELSE <<>>

Owner(R, connection_id) ==
    IF connection_id \in DOMAIN R.connection_users
    THEN R.connection_users[connection_id] ELSE None

\* C3: send_personal_message(message, user) calls send_text on every
\* connection the user holds when the call starts; a connection whose send
\* fails is gone from the registry afterwards, and the others still get the
\* message.  Stated for every call from every reachable registry.
C3_PersonalMessageReachesAll ==
    \A u \in WsUsers, F \in SUBSET Sockets :
        LET held == HeldBy(Registry, u)
            s == SendPersonalMessage(Registry, u, F)
        IN  \A i \in 1..Len(held) :
                /\ Count(s.attempted, held[i]) = 1
                /\ (held[i][2] \in F => Absent(s.reg, held[i]))

\* C4: after disconnect of a connection, its identifier is in none of
\* active_connections, connection_users, a user's connection list or a
\* room's member list.  Stated for the disconnect of every open endpoint
\* from every reachable registry.
C4_DisconnectLeavesNoReference ==
    \A e \in endpoints :
        Absent(Disconnect(Registry, e[2], e[1]), ConnectionId(e[1], e[2]))

\* a registered connection, of a user with two connections, that is a member
\* of every room, is disconnected and is absent afterwards
C4_Witness ==
    \E e \in endpoints :
        LET c == ConnectionId(e[1], e[2])
        IN  /\ c \in DOMAIN active_connections
            /\ c \in DOMAIN connection_users
            /\ Len(HeldBy(Registry, e[1])) = 2
            /\ \A r \in Rooms : InList(Members(Registry, r), c)
            /\ Absent(Disconnect(Registry, e[2], e[1]), c)

\* C5: send_to_exam_room(message, room, exclude_user) calls send_text on no
\* connection owned by exclude_user, and exactly once on every other member
\* of the room (so on nobody when all members belong to exclude_user).
C5_RoomSendExcludesUser ==
    \A r \in Rooms, x \in WsUsers \cup {None}, F \in SUBSET Sockets :
        LET members == Members(Registry, r)
            s == SendToExamRoom(Registry, r, x, F)
        IN  /\ \A i \in 1..Len(members) :
                  Count(s.attempted, members[i]) =
                      (IF Owner(Registry, members[i]) = x THEN 0 ELSE 1)
            /\ \A i \in 1..Len(s.attempted) : InList(members, s.attempted[i])

\* a room with a member of the excluded user and a member of another user:
\* the call sends to the second and not to the first
C5_Witness ==
    \E r \in Rooms, x \in WsUsers :
        LET members == Members(Registry, r)
            s == SendToExamRoom(Registry, r, x, {})
        IN  /\ \E i \in 1..Len(members) : Owner(Registry, members[i]) = x
            /\ \E i \in 1..Len(members) : Owner(Registry, members[i]) # x
            /\ Len(s.attempted) = 1
            /\ Owner(Registry, s.attempted[1]) # x

\* C6: in send_to_exam_room a failing send raises nothing to the caller,
\* the failing connection leaves every mapping and every room, and every
\* other non-excluded member is still sent the message.
C6_RoomSendSurvivesFailure ==
    \A r \in Rooms, x \in WsUsers \cup {None}, F \in SUBSET Sockets :
        LET members == Members(Registry, r)
            s == SendToExamRoom(Registry, r, x, F)
        IN  /\ s.exc = None
            /\ \A c \in Failed(s.attempted, F) : Absent(s.reg, c)
            /\ \A i \in 1..Len(members) :
                  (Owner(Registry, members[i]) # x /\ members[i][2] \notin F)
                      => /\ InList(s.attempted, members[i])
                         /\ ~Absent(s.reg, members[i])

\* the first member's send fails, the member is in both rooms, and a later
\* member is still sent the message
C6_Witness ==
    \E r \in Rooms, F \in SUBSET Sockets :
        LET members == Members(Registry, r)
            s == SendToExamRoom(Registry, r, None, F)
        IN  /\ Len(members) = 2
            /\ members[1][2] \in F
            /\ members[2][2] \notin F
            /\ \A q \in Rooms : InList(Members(Registry, q), members[1])
            /\ s.attempted = members
            /\ Absent(s.reg, members[1])

\* a payload that cannot be dispatched: not JSON, not a JSON object, or an
\* object whose exam_id cannot be used as a room key
Malformed(p) == p.kind \in {"invalid_json", "non_object"} \/ p.exam_id = Unhashable

\* C7: for every malformed payload handle_message returns without raising
\* and leaves the four mappings as they were.
C7_MalformedPayloadIsDropped ==
    \A e \in endpoints, p \in {q \in Payloads : Malformed(q)}, F \in SUBSET Sockets :
        LET h == HandleMessage(Registry, e[2], p, F)
        IN  ~h.raised /\ h.reg = Registry

\* a registered connection in a populated registry sends a join_exam with an
\* unhashable exam_id, and a value that is not an object: both end in an
\* exception inside handle_message and change nothing
C7_Witness ==
    \E e \in endpoints :
        LET j == [kind |-> "object", type |-> "join_exam", exam_id |-> Unhashable,
                  data |-> None]
            n == [kind |-> "non_object", type |-> None, exam_id |-> None, data |-> None]
        IN  /\ ConnectionId(e[1], e[2]) \in DOMAIN active_connections
            /\ DOMAIN exam_rooms # {}
            /\ HandleBody(Registry, e[2], j, {}).exc = "TypeError"
            /\ HandleBody(Registry, e[2], n, {}).exc = "AttributeError"
            /\ HandleMessage(Registry, e[2], j, {}).reg = Registry
            /\ ~HandleMessage(Registry, e[2], n, {}).raised

\* the connection ids a caller can name
ConnectionIds == {ConnectionId(u, w) : u \in WsUsers, w \in Sockets}

\* C18: disconnect, join_exam_room and leave_exam_room are idempotent: from
\* every reachable registry, applying one of them twice with the same
\* arguments leaves the registry that applying it once leaves.
C18_RegistryOperationsIdempotent ==
    /\ \A u \in WsUsers, w \in Sockets :
           Disconnect(Disconnect(Registry, w, u), w, u) = Disconnect(Registry, w, u)
    /\ \A c \in ConnectionIds, r \in Rooms :
           /\ JoinExamRoom(JoinExamRoom(Registry, c, r), c, r)
                  = JoinExamRoom(Registry, c, r)
           /\ LeaveExamRoom(LeaveExamRoom(Registry, c, r), c, r)
                  = LeaveExamRoom(Registry, c, r)

\* a registered connection that is in one room and not in another: its
\* disconnect, its join of the other room and its leave each change the
\* registry, and the second application changes nothing more
C18_Witness ==
    \E u \in WsUsers, w \in Sockets, r \in Rooms, q \in Rooms :
        LET c == ConnectionId(u, w)
        IN  /\ c \in DOMAIN active_connections
            /\ r \in DOMAIN exam_rooms /\ InList(exam_rooms[r], c)
            /\ Len(exam_rooms[r]) > 1
            /\ (q \notin DOMAIN exam_rooms \/ ~InList(exam_rooms[q], c))
            /\ Disconnect(Registry, w, u) # Registry
            /\ JoinExamRoom(Registry, c, q) # Registry
            /\ LeaveExamRoom(Registry, c, r) # Registry
            /\ Disconnect(Disconnect(Registry, w, u), w, u) = Disconnect(Registry, w, u)
            /\ JoinExamRoom(JoinExamRoom(Registry, c, q), c, q)
                   = JoinExamRoom(Registry, c, q)

\* an endpoint coroutine is running for socket w although a failed send has
\* already removed its connection from the registry
Orphaned(w) ==
    /\ ep[w].pc \notin {"idle", "closing"}
    /\ Absent(Registry, ConnectionId(ep[w].user, w))

\* C21: the texts of one connection are handled one after the other: at
\* every moment at most one handle_message call is in progress for a
\* connection, and none is in progress while its endpoint awaits the next
\* text, whatever the other connections' handlers are doing.
C21_OneMessageAtATime ==
    \A w \in Sockets :
        /\ ep[w].handling <= 1
        /\ (ep[w].pc = "receive" => ep[w].handling = 0)

\* two connections are both in the middle of handling a text, one
\* suspended in a relay to the room and one at its reply
C21_Witness ==
    \E w \in Sockets, x \in Sockets :
        /\ ep[w].pc = "relay" /\ ep[w].handling = 1
        /\ ep[x].pc = "reply" /\ ep[x].handling = 1

\* C22: once the receive loop of a connection has ended, disconnect runs
\* for it: the connection id eventually appears in none of the registry's
\* mappings.
C22_ClosedConnectionIsRemoved ==
    \A w \in Sockets, u \in WsUsers :
        (ep[w].pc = "closing" /\ ep[w].user = u)
            ~> Absent(Registry, ConnectionId(u, w))

\* the receive loop of a connection has ended while the connection is
\* still registered and is a member of a room another connection is in
C22_Witness ==
    \E w \in Sockets, r \in Rooms :
        LET c == ConnectionId(ep[w].user, w)
        IN  /\ ep[w].pc = "closing"
            /\ c \in DOMAIN active_connections
            /\ r \in DOMAIN exam_rooms
            /\ InList(exam_rooms[r], c)
            /\ Len(exam_rooms[r]) > 1

\* C26: between any two steps of the handlers, active_connections and
\* connection_users have the same keys, and user_connections maps each user
\* to the non-empty, duplicate-free list of exactly the connection ids that
\* connection_users maps to that user.
C26_MappingsAgree ==
    /\ DOMAIN active_connections = DOMAIN connection_users
    /\ \A c \in DOMAIN connection_users :
           connection_users[c] \in DOMAIN user_connections
    /\ \A u \in DOMAIN user_connections :
           LET lst == user_connections[u]
           IN  /\ lst # <<>>
               /\ \A i \in 1..Len(lst) : Count(lst, lst[i]) = 1
               /\ {lst[i] : i \in 1..Len(lst)}
                      = {c \in DOMAIN connection_users : connection_users[c] = u}

\* a failed send has removed one connection of a user whose endpoint is
\* still running, and the same user's other connection is still registered
C26_Witness ==
    \E w \in Sockets, x \in Sockets :
        /\ Orphaned(w)
        /\ ep[x].user = ep[w].user
        /\ ConnectionId(ep[x].user, x) \in DOMAIN active_connections
        /\ user_connections[ep[x].user] = <<ConnectionId(ep[x].user, x)>>

\* C27: under every interleaving of the endpoint's handlers, every member
\* of every exam room is a key of active_connections and no room list holds
\* a connection id twice.
C27_RoomMembersAreConnected ==
    \A r \in DOMAIN exam_rooms :
        \A i \in 1..Len(exam_rooms[r]) :
            /\ exam_rooms[r][i] \in DOMAIN active_connections
            /\ Count(exam_rooms[r], exam_rooms[r][i]) = 1

\* a relay is suspended at a send to a room that still has a member, after
\* a failed send has removed another connection
C27_Witness ==
    \E w \in Sockets, x \in Sockets, r \in Rooms :
        /\ ep[w].pc = "relay"
        /\ Orphaned(x)
        /\ r \in DOMAIN exam_rooms
        /\ exam_rooms[r] # <<>>

\* C28: broadcast(message) returns normally and has called send_text on
\* every connection that was registered when it started, also when sockets
\* are connected or disconnected while it is suspended at a send.
C28_BroadcastCompletes == bc.outcome \notin {"RuntimeError", "missed"}

\* C29: handle_message relays an exam_update to a room only for an
\* instructor's connection: an exam_update received from a student's
\* connection is sent to no room member.
C29_OnlyInstructorsRelayExamUpdates ==
    \A e \in endpoints, p \in Payloads :
        (p.type = "exam_update" /\ Role(e[1]) = "student")
            => HandleMessage(Registry, e[2], p, {}).attempted = <<>>

\* ------------------------------------------------------ properties of the store
\* the attempts of one user on one exam whose status is in_progress
InProgress(S, user_id, exam_id) ==
    {a \in DOMAIN S.attempts : /\ S.attempts[a].user_id = user_id
                               /\ S.attempts[a].exam_id = exam_id
                               /\ S.attempts[a].status = "in_progress"}

\* C1: in every state reached by start_exam_attempt and update_attempt calls,
\* each (user, exam) pair has at most one attempt whose status is in_progress.
C1_AtMostOneInProgress ==
    \A u \in Users, e \in ExamIds : Cardinality(InProgress(Store, u, e)) <= 1

\* C2: for every user and every exam the user may start, a second
\* start_exam_attempt right after the first returns the same attempt
\* identifier and leaves the attempt rows as the first call left them.
C2_StartTwiceReturnsSameAttempt ==
    \A u \in Users, e \in ExamIds :
        LET r1 == StartExamAttempt(Store, u, e)
            r2 == StartExamAttempt(r1.store, u, e)
        IN  r1.status = 200 =>
                /\ r2.status = 200
                /\ r2.result = r1.result
                /\ r2.store.attempts = r1.store.attempts

\* a user who has already submitted one attempt on the exam starts again: the
\* first call creates a row, the second returns that row and creates none
C2_Witness ==
    \E u \in Users, e \in ExamIds :
        LET r1 == StartExamAttempt(Store, u, e)
            r2 == StartExamAttempt(r1.store, u, e)
        IN  /\ \E a \in DOMAIN attempts : /\ attempts[a].user_id = u
                                          /\ attempts[a].exam_id = e
                                          /\ attempts[a].status = "submitted"
            /\ r1.status = 200
            /\ r1.result \notin DOMAIN attempts
            /\ r2.result = r1.result
            /\ DOMAIN r2.store.attempts = DOMAIN attempts \cup {r1.result}

\* C8: once an attempt has status graded, no update_attempt call, by any
\* user and with any body, changes any of its fields.
C8_GradedAttemptIsImmutable ==
    \A a \in DOMAIN attempts :
        attempts[a].status = "graded" =>
            \A u \in Users, d \in AttemptUpdates, m \in BOOLEAN :
                UpdateAttempt(Store, u, a, d, m).store.attempts[a] = attempts[a]

\* C9: update_exam and update_question answer a user who does not own the
\* exam (the question's exam) with 403 and leave the stored exam or question
\* as it was.
C9_NonOwnerUpdateChangesNothing ==
    /\ \A u \in Users, e \in DOMAIN exams, d \in ExamUpdates :
           exams[e].instructor_id # u =>
               LET r == UpdateExam(Store, u, e, d)
               IN  r.status = 403 /\ r.store.exams[e] = exams[e]
    /\ \A u \in Users, q \in DOMAIN questions, d \in QuestionUpdates :
           exams[questions[q].exam_id].instructor_id # u =>
               LET r == UpdateQuestion(Store, u, q, d)
               IN  r.status = 403 /\ r.store.questions[q] = questions[q]

\* C10: get_exam and get_exam_questions deny an unpublished exam to every
\* user whose id is not the exam's instructor_id, whatever their role.
C10_UnpublishedExamOnlyForOwner ==
    \A u \in Users, e \in DOMAIN exams :
        (~exams[e].published /\ u # exams[e].instructor_id) =>
            /\ GetExam(Store, u, e).status = 403
            /\ GetExamQuestions(Store, u, e).status = 403

\* the entity tables of a store
Entities(S) == [exams |-> S.exams, questions |-> S.questions, attempts |-> S.attempts]

\* a response that reports success, left the entity tables changed and the
\* audit log as it was
Unaudited(S, r) ==
    /\ r.status = 200
    /\ Entities(r.store) # Entities(S)
    /\ r.store.audit_log = S.audit_log

\* C11: every request that changes stored state appends an audit entry: no
\* successful create_exam, update_exam, create_question, update_question,
\* start_exam_attempt or update_attempt leaves changed entities and an
\* unchanged audit log.
C11_StateChangeIsAudited ==
    /\ \A u \in Users, d \in ExamCreates : ~Unaudited(Store, CreateExam(Store, u, d))
    /\ \A u \in Users, e \in ExamIds, d \in ExamUpdates :
           ~Unaudited(Store, UpdateExam(Store, u, e, d))
    /\ \A u \in Users, e \in ExamIds : ~Unaudited(Store, CreateQuestion(Store, u, e))
    /\ \A u \in Users, q \in QuestionIds, d \in QuestionUpdates :
           ~Unaudited(Store, UpdateQuestion(Store, u, q, d))
    /\ \A u \in Users, e \in ExamIds : ~Unaudited(Store, StartExamAttempt(Store, u, e))
    /\ \A u \in Users, a \in AttemptIds, d \in AttemptUpdates, m \in BOOLEAN :
           ~Unaudited(Store, UpdateAttempt(Store, u, a, d, m))

\* the audit row update_attempt writes for an attempt of its owner
UpdateAttemptEntry(S, attempt_id) ==
    [user_id |-> S.attempts[attempt_id].user_id, action |-> "update_attempt",
     entity_type |-> "attempt", entity_id |-> attempt_id]

\* the update_attempt bodies that set status to submitted
Submissions == {d \in AttemptUpdates : "status" \in DOMAIN d /\ d.status = "submitted"}

\* C12: an update_attempt call of the owner that moves an attempt from
\* in_progress to submitted leaves the attempt submitted with submitted_at
\* set, and the audit log with exactly one more entry: action update_attempt,
\* entity_id the attempt id.
C12_SubmitStampsAndAuditsOnce ==
    \A a \in DOMAIN attempts, d \in Submissions, m \in BOOLEAN :
        attempts[a].status = "in_progress" =>
            LET r == UpdateAttempt(Store, attempts[a].user_id, a, d, m)
            IN  /\ r.status = 200
                /\ r.store.attempts[a].status = "submitted"
                /\ r.store.attempts[a].submitted_at = "utcnow"
                /\ r.store.audit_log
                       = audit_log (+) SetToBag({UpdateAttemptEntry(Store, a)})

\* an in_progress attempt that was never submitted and has one
\* update_attempt entry already: its submission sets submitted_at and the
\* log then holds two such entries
C12_Witness ==
    \E a \in DOMAIN attempts :
        LET r == UpdateAttempt(Store, attempts[a].user_id, a,
                               [status |-> "submitted"], FALSE)
        IN  /\ attempts[a].status = "in_progress"
            /\ attempts[a].submitted_at = None
            /\ CopiesIn(UpdateAttemptEntry(Store, a), audit_log) = 1
            /\ r.store.attempts[a].submitted_at = "utcnow"
            /\ CopiesIn(UpdateAttemptEntry(Store, a), r.store.audit_log) = 2
            /\ BagCardinality(r.store.audit_log) = BagCardinality(audit_log) + 1

\* C13: every update_attempt call of the owner that sets status to submitted
\* leaves the attempt with the analysis values of that submission, whether
\* or not the request carries the answers.
C13_SubmissionIsAnalysed ==
    \A a \in DOMAIN attempts, d \in Submissions, m \in BOOLEAN :
        UpdateAttempt(Store, attempts[a].user_id, a, d, m).store.attempts[a].analysis
            = "analysed"

\* the request ends in the exception of its audit write where it would
\* have ended in a new audit row; the entity tables are those the request
\* leaves when the audit write succeeds
FailsAfterCommit(ok, failed) ==
    \/ ok.status # 200
    \/ ok.store.audit_log = audit_log
    \/ /\ failed.status = 500
       /\ Entities(failed.store) = Entities(ok.store)
       /\ failed.store.audit_log = audit_log

\* C14: when the audit write of a state-changing request fails, the request
\* is answered with the error, and the entity write committed before it
\* stays: the tables are those of the same request with a working audit
\* write, and a later get_exam reads the updated exam.  (update_attempt
\* gets to its audit write for the attempt's owner only.)
C14_AuditFailureKeepsMutation ==
    /\ \A u \in Users, d \in ExamCreates :
           FailsAfterCommit(CreateExam(Store, u, d), CreateExam(AuditDown(Store), u, d))
    /\ \A u \in Users, e \in DOMAIN exams, d \in ExamUpdates :
           /\ FailsAfterCommit(UpdateExam(Store, u, e, d),
                               UpdateExam(AuditDown(Store), u, e, d))
           /\ u = exams[e].instructor_id =>
                  LET failed == UpdateExam(AuditDown(Store), u, e, d)
                      read == GetExam([failed.store EXCEPT !.audit_ok = TRUE], u, e)
                  IN  /\ read.status = 200
                      /\ \A f \in DOMAIN d : read.store.exams[read.result][f] = d[f]
    /\ \A u \in Users, e \in DOMAIN exams :
           /\ FailsAfterCommit(CreateQuestion(Store, u, e),
                               CreateQuestion(AuditDown(Store), u, e))
           /\ FailsAfterCommit(StartExamAttempt(Store, u, e),
                               StartExamAttempt(AuditDown(Store), u, e))
    /\ \A a \in DOMAIN attempts, d \in AttemptUpdates :
           FailsAfterCommit(
               UpdateAttempt(Store, attempts[a].user_id, a, d, FALSE),
               UpdateAttempt(AuditDown(Store), attempts[a].user_id, a, d, FALSE))

\* an audit write has failed before, and the owner's update of an exam title
\* meets a failing audit write again: the response is the error, the title
\* is the new one, the audit log is as it was
C14_Witness ==
    \E e \in DOMAIN exams :
        LET failed == UpdateExam(AuditDown(Store), exams[e].instructor_id, e,
                                 [title |-> "t2"])
        IN  /\ audit_failures > 0
            /\ exams[e].title = "t1"
            /\ failed.status = 500
            /\ failed.store.exams[e].title = "t2"
            /\ failed.store.audit_log = audit_log

\* C15: the audit log only grows: every step keeps every audit row, with
\* its field values, at least as many times as before.
C15_AuditLogOnlyGrows ==
    [][\A row \in BagToSet(audit_log) :
           /\ row \in BagToSet(audit_log')
           /\ CopiesIn(row, audit_log') >= CopiesIn(row, audit_log)]_vars

\* the log holds rows of three requests on three kinds of entity
C15_Witness ==
    /\ BagCardinality(audit_log) >= 3
    /\ \E x \in BagToSet(audit_log), y \in BagToSet(audit_log), z \in BagToSet(audit_log) :
           /\ x.action = "create_exam"
           /\ y.action = "start_attempt"
           /\ z.action = "update_attempt"

\* C16: a student reads an attempt through get_attempt and changes it
\* through update_attempt when the attempt's user_id is their own id, and
\* only then: for every other attempt both requests are answered 403 and
\* the store is as it was.
C16_StudentsReachOnlyOwnAttempts ==
    \A u \in Students, a \in DOMAIN attempts :
        IF attempts[a].user_id = u
        THEN /\ GetAttempt(Store, u, a).status = 200
             /\ \A d \in AttemptUpdates, m \in BOOLEAN :
                    UpdateAttempt(Store, u, a, d, m).status = 200
        ELSE /\ GetAttempt(Store, u, a).status = 403
             /\ GetAttempt(Store, u, a).store = Store
             /\ \A d \in AttemptUpdates, m \in BOOLEAN :
                    /\ UpdateAttempt(Store, u, a, d, m).status = 403
                    /\ UpdateAttempt(Store, u, a, d, m).store = Store

\* a student with an attempt of their own next to another user's attempt:
\* the own attempt is read and its answers are saved, the other one is
\* refused both ways
C16_Witness ==
    \E u \in Students, a \in DOMAIN attempts, b \in DOMAIN attempts :
        /\ attempts[a].user_id = u
        /\ attempts[b].user_id # u
        /\ attempts[a].answers = "{}"
        /\ GetAttempt(Store, u, a).status = 200
        /\ UpdateAttempt(Store, u, a, [answers |-> "answers"], FALSE)
               .store.attempts[a].answers = "answers"
        /\ GetAttempt(Store, u, b).status = 403
        /\ UpdateAttempt(Store, u, b, [answers |-> "answers"], FALSE).status = 403

\* the token is one get_current_user turns down: neither verifier decodes
\* it, or its payload has no "sub", or no stored user has that id
Unverifiable(token) ==
    \/ ~VerifyToken(token).ok /\ ~VerifyReplitToken(token).ok
    \/ token.sub = None
    \/ GetUser(token.sub) = None

C19_ExamReadsBackWhatWasWritten ==
    /\ \A u \in Users, d \in ExamCreates :
           LET created == CreateExam(Store, u, d)
               read == GetExam(created.store, u, created.result)
           IN  created.status = 200 =>
                   /\ created.result \notin DOMAIN exams
                   /\ read.status = 200
                   /\ read.result = created.result
                   /\ \A f \in DOMAIN d : read.store.exams[read.result][f] = d[f]
    /\ \A u \in Users, e \in ExamIds, d \in ExamUpdates :
           LET updated == UpdateExam(Store, u, e, d)
               read == GetExam(updated.store, u, e)
           IN  updated.status = 200 =>
                   /\ read.status = 200
                   /\ \A f \in DOMAIN d : read.store.exams[read.result][f] = d[f]

\* next to an exam that exists already, an admin creates a published exam
\* and reads it back under the new id
C19_Witness ==
    \E u \in Admins :
        LET d == [title |-> "t1", description |-> "d1", time_limit |-> 60,
                  published |-> TRUE, settings |-> "{}"]
            created == CreateExam(Store, u, d)
            read == GetExam(created.store, u, created.result)
        IN  /\ DOMAIN exams # {}
            /\ created.status = 200
            /\ created.result \notin DOMAIN exams
            /\ read.status = 200
            /\ read.store.exams[read.result].published
            /\ read.store.exams[read.result].title = "t1"
            /\ read.store.exams[read.result].instructor_id = u

\* the fields of `new` that differ from `old` are among `named`
ChangesOnly(old, new, named) == \A f \in DOMAIN old : new[f] # old[f] => f \in named

\* the rows of `table` other than `id` are the same in `new`
OthersKept(table, new, id) ==
    /\ DOMAIN new = DOMAIN table
    /\ \A x \in DOMAIN table : x # id => new[x] = table[x]

\* DatabaseStorage.update_exam, update_question and update_attempt change,
\* in the row they are given, fields of the partial update and the `extra`
\* exam fields only, and leave every other row of every table as it was.
UpdatesTouchOnly(extra) ==
    /\ \A e \in DOMAIN exams, d \in ExamUpdates :
           LET S1 == DbUpdateExam(Store, e, d)
           IN  /\ ChangesOnly(exams[e], S1.exams[e], DOMAIN d \cup extra)
               /\ OthersKept(exams, S1.exams, e)
               /\ S1.questions = questions /\ S1.attempts = attempts
    /\ \A q \in DOMAIN questions, d \in QuestionUpdates :
           LET S1 == DbUpdateQuestion(Store, q, d)
           IN  /\ ChangesOnly(questions[q], S1.questions[q], DOMAIN d)
               /\ OthersKept(questions, S1.questions, q)
               /\ S1.exams = exams /\ S1.attempts = attempts
    /\ \A a \in DOMAIN attempts, d \in AttemptUpdates, m \in BOOLEAN :
           LET S1 == DbUpdateAttempt(Store, a, SubmissionUpdates(d), m)
           IN  /\ ChangesOnly(attempts[a], S1.attempts[a],
                              DOMAIN SubmissionUpdates(d))
               /\ OthersKept(attempts, S1.attempts, a)
               /\ S1.exams = exams /\ S1.questions = questions

\* C20: DatabaseStorage.update_exam, update_question and update_attempt
\* change only the fields named in the partial update they are given; every
\* other field of the record, and every other record, is unchanged.
C20_UpdatesTouchOnlyNamedFields == UpdatesTouchOnly({})

\* C20, amended: as above, except that update_exam also re-stamps the
\* exam's updated_at when the update changed a column.
C20_UpdatesTouchOnlyNamedFieldsAndStamp == UpdatesTouchOnly({"updated_at"})

\* two attempts and an exam never updated: an update of the first attempt's
\* answers changes that field of that row only, and an update of the exam's
\* title changes the title and re-stamps updated_at
C20_Witness ==
    \E a \in DOMAIN attempts, b \in DOMAIN attempts, e \in DOMAIN exams :
        LET S1 == DbUpdateAttempt(Store, a, [answers |-> "answers"], FALSE)
            S2 == DbUpdateExam(Store, e, [title |-> "t2"])
        IN  /\ a # b
            /\ attempts[a].answers = "{}"
            /\ S1.attempts[a] = [attempts[a] EXCEPT !.answers = "answers"]
            /\ S1.attempts[b] = attempts[b]
            /\ exams[e].updated_at = "default" /\ exams[e].title = "t1"
            /\ S2.exams[e] = [exams[e] EXCEPT !.title = "t2", !.updated_at = "onupdate"]

\* C25: a student who owns an attempt cannot grade it: whatever body the
\* student sends to update_attempt for an attempt of their own that has no
\* score and is not graded, the attempt still has no score and is still
\* not graded afterwards.
C25_StudentCannotGradeOwnAttempt ==
    \A u \in Students, a \in DOMAIN attempts :
        (/\ attempts[a].user_id = u
         /\ attempts[a].score = None
         /\ attempts[a].status # "graded")
        => \A d \in AttemptUpdates, m \in BOOLEAN :
               LET row == UpdateAttempt(Store, u, a, d, m).store.attempts[a]
               IN  row.score = None /\ row.status # "graded"

\* C30: a token issued by create_access_token is accepted by
\* get_current_user before its exp and answered 401 after it.
C30_ExpiredTokenIsRejected ==
    \A t \in Tokens :
        /\ (t.kind = "local" /\ GetUser(t.sub) # None
               => GetCurrentUser(Store, t).status = 200)
        /\ (t.kind = "expired" => GetCurrentUser(Store, t).status = 401)

\* -------------------------------------------- properties of the speech service
\* the threads that are reading or configuring tts_engine
InEngine == {t \in SpeechThreads : speech[t].pc \in EnginePcs}

\* C23: at most one thread at a time configures or uses the shared engine,
\* and tts_lock is locked whenever one does.
C23_EngineAccessUnderLock ==
    /\ Cardinality(InEngine) <= 1
    /\ (InEngine # {} => tts_lock)

\* the engine was configured under the lock, and of two requests in flight
\* one has taken tts_lock in its handler while the other waits for it
C23_Witness ==
    \E t \in SpeechRequests, x \in SpeechRequests :
        /\ tts_engine = "engine"
        /\ speech[t].pc = "inner"
        /\ speech[x].pc = "outer"
        /\ Waiting(SpeechGlobals, x)

\* C24: a synthesize request for the pyttsx3 engine or a voices request
\* that has taken tts_lock and calls init_tts_engine() eventually returns
\* a response or an error.
C24_SpeechRequestsReturn ==
    \A t \in SpeechRequests : (speech[t].pc = "inner") ~> (speech[t].pc = "idle")

====
